---- MODULE Spec2Model ----
(***************************************************************************)
(* Model of the projects store loaders (src/stores/loaders/projects.ts as  *)
(* written out in the lesson notes): the memoized loaders loadProject and  *)
(* loadProjects, the slots project and projects, getProject, getProjects   *)
(* and the stale-while-revalidate helper validateCache.                    *)
(*                                                                         *)
(* Scheduling is the JavaScript event loop: a network response is a task   *)
(* that runs only when the microtask queue is empty; the continuation of   *)
(* an await and a .then callback are microtasks, run in FIFO order.        *)
(***************************************************************************)
EXTENDS Integers, Sequences, FiniteSets, TLC

VARIABLES
  db,        \* backend table: slug -> name of the project row
  slot,      \* the refs project and projects: store -> value
  cache,     \* useMemoize cache of each loader: store -> key -> promise id (0: no entry)
  promises,  \* promises created by the memoized loaders, by id
  waiting,   \* getProject/getProjects invocations suspended at their await, in order
  revals,    \* fresh (non-memoized) queries of validateCache in flight: <<store,key>> -> count
  mq,        \* microtask queue: the continuations of settled awaits, in FIFO order
  errors,    \* error sink: the customCodes passed to setError, with the call's store and key
  limit,     \* number of getProject/getProjects calls the callers make in this behaviour
  ops,       \* history: number of getProject/getProjects calls made so far
  sync,      \* history: the latest call was made right after another call, nothing run between
  last,      \* history: the latest step of the store's code, with what it saw before it ran
  writes,    \* updateProjectQuery calls in flight, in the order issued
  upd,       \* history: number of updateProject calls made and how the latest one ended
  grouped,   \* the ref groupedCollabs: item id -> list of profiles, for the ids written so far
  batches,   \* getGroupedCollabs invocations: input, filtered items, fetches, status
  cq,        \* microtask queue of the collabs composable: batches whose Promise.all settled
  lastC,     \* history: the latest step of getGroupedCollabs, with the map before it ran
  view,      \* what the collaborators cell of each row shows: item id -> "skeleton" | "avatars"
  realtimeErrors, \* the ref realtimeErrors of useFormerrors: unset, or the two error lists
  imported,  \* whether the module formValidations has been loaded
  formWaiting, \* handelLoginForm calls suspended at `await import(...)`, in order
  fq,        \* microtask queue of useFormerrors: the calls whose import has resolved
  formCalls, \* history: number of handelLoginForm calls made so far
  lastF      \* history: the latest step of handelLoginForm

storeVars == <<db, slot, cache, promises, waiting, revals, mq, errors, limit, ops, sync, last>>
updateVars == <<writes, upd>>
collabVars == <<grouped, batches, cq, lastC, view>>
formVars == <<realtimeErrors, imported, formWaiting, fq, formCalls, lastF>>
vars == <<storeVars, updateVars, collabVars, formVars>>

---------------------------------------------------------------------------
(* Bounds *)

MaxOps == 3          \* calls of getProject/getProjects in one behaviour of Spec
MaxProjectOps == 4   \* calls of getProject in one behaviour of SpecProject
MaxDbChanges == 1    \* renames of a row by some other client
MaxBatches == 2      \* calls of getGroupedCollabs in one behaviour of SpecCollabs
MaxItems == 2        \* items passed to one call of getGroupedCollabs
MaxUpdateOps == 2    \* getProject calls in one behaviour of SpecUpdate
MaxUpdates == 2      \* updateProject calls in one behaviour of SpecUpdate
MaxLiveOps == 2      \* getProject/getProjects calls in one behaviour of SpecLive
MaxFormCalls == 3    \* handelLoginForm calls in one behaviour of SpecForm

---------------------------------------------------------------------------
(* Data *)

Slugs == {"a", "b"}
Names == {"X", "Y"}
ListKey == "projects"
Stores == {"project", "projects"}
Keys == Slugs \cup {ListKey}

KeysOf(store) == IF store = "project" THEN Slugs ELSE {ListKey}
StoreKeys == {sk \in Stores \X Keys : sk[2] \in KeysOf(sk[1])}

SlugOrder == <<"a", "b">>
IdOf(slug) == IF slug = "a" THEN 1 ELSE 2

NullVal == [tag |-> "null"]
Entity(slug, name) == [tag |-> "obj", id |-> IdOf(slug), slug |-> slug, name |-> name]
ListOf(items) == [tag |-> "arr", items |-> items]

\* `if (data)` / `if (!ref.value)`: null is falsy, objects and arrays
\* (the empty array included) are truthy
Truthy(v) == v.tag # "null"

StatusOk == 200
StatusErr == 500

OkResult(data) == [data |-> data, error |-> FALSE, status |-> StatusOk]
ErrResult == [data |-> NullVal, error |-> TRUE, status |-> StatusErr]
NoResult == [data |-> NullVal, error |-> FALSE, status |-> 0]

\* what the backend answers to projectQuery(slug) / projectsQuery
projectQuery(slug, table) == Entity(slug, table[slug])
projectsQuery(table) == ListOf([i \in 1..Len(SlugOrder) |->
                                  Entity(SlugOrder[i], table[SlugOrder[i]])])
QueryData(store, key, table) ==
  IF store = "project" THEN projectQuery(key, table) ELSE projectsQuery(table)

Outcomes == {"ok", "err"}
QueryResult(store, key, table, outcome) ==
  IF outcome = "ok" THEN OkResult(QueryData(store, key, table)) ELSE ErrResult

\* JSON.stringify, as the sequence of tokens it writes
RECURSIVE StringifyItems(_)
StringifyEntity(v) ==
  <<"{", "id", v.id, "slug", v.slug, "name", v.name, "}">>
StringifyItems(items) ==
  IF items = <<>> THEN <<>>
  ELSE StringifyEntity(Head(items)) \o StringifyItems(Tail(items))
Stringify(v) ==
  CASE v.tag = "null" -> <<"null">>
    [] v.tag = "obj" -> StringifyEntity(v)
    [] OTHER -> <<"[">> \o StringifyItems(v.items) \o <<"]">>

---------------------------------------------------------------------------
(* Helpers on the state *)

\* the record kept in last: the step, the slot, the cache entry, the number
\* of loader invocations and of fresh queries in flight before it ran, and
\* the query result it was given
NoStep == [op |-> "init", store |-> "project", key |-> "a", pre |-> NullVal,
           entry |-> 0, invoked |-> 0, fresh |-> 0, res |-> NoResult]

RECURSIVE SelectWaiters(_, _)
SelectWaiters(ws, pid) ==
  IF ws = <<>> THEN <<>>
  ELSE IF Head(ws).pid = pid
       THEN <<[src |-> "net", store |-> Head(ws).store,
               key |-> Head(ws).key, pid |-> pid]>>
            \o SelectWaiters(Tail(ws), pid)
       ELSE SelectWaiters(Tail(ws), pid)

RECURSIVE DropWaiters(_, _)
DropWaiters(ws, pid) ==
  IF ws = <<>> THEN <<>>
  ELSE IF Head(ws).pid = pid THEN DropWaiters(Tail(ws), pid)
       ELSE <<Head(ws)>> \o DropWaiters(Tail(ws), pid)

\* env code runs between our microtasks only while the queued ones come from
\* cache hits of calls made in the same synchronous block
OnlyHits == \A i \in 1..Len(mq) : mq[i].src = "hit"

---------------------------------------------------------------------------
(* Initial state of the update path and of the collabs composable *)

NoUpdate == [calls |-> 0, op |-> "none"]
InitUpdate ==
  /\ writes = <<>>
  /\ upd = NoUpdate

\* the items a page passes: projects (or tasks) with their collaborators
UserIds == {"u1", "u2"}
Item(id, collaborators) == [id |-> id, collaborators |-> collaborators]
AllItems == {Item(1, <<"u1">>), Item(2, <<>>), Item(3, <<"u1", "u2">>)}

\* the collaborators cell of the table: skeleton avatars or real ones
cell(map, item) ==
  IF item.id \notin DOMAIN map \/ Len(map[item.id]) = 0
  THEN "skeleton" ELSE "avatars"

\* what the table shows for each row, given groupedCollabs
Render(map) == [id \in {it.id : it \in AllItems} |->
                  cell(map, CHOOSE it \in AllItems : it.id = id)]

NoGroupedStep == [op |-> "init", batch |-> 0, pre |-> <<>>]
InitCollabs ==
  /\ view = Render(<<>>)
  /\ grouped = <<>>
  /\ batches = <<>>
  /\ cq = <<>>
  /\ lastC = NoGroupedStep

\* the login form: the values a field can hold, and what the validators of
\* formValidations return for each (an empty list for a valid value)
Emails == {"e0", "e1", "e2"}
Passwords == {"p0", "p1"}
LoginForms == [email : Emails, password : Passwords]
validateEmail(email) ==
  CASE email = "e0" -> <<>>
    [] email = "e1" -> <<"email: e1">>
    [] OTHER -> <<"email: e2", "email: too long">>
validatePassword(password) ==
  IF password = "p0" THEN <<>> ELSE <<"password: p1">>

\* ref(): undefined until the first call
UnsetErrors == [tag |-> "undefined"]
NoFormStep == [op |-> "init", form |-> [email |-> "e0", password |-> "p0"],
               alone |-> FALSE, before |-> UnsetErrors]
InitForm ==
  /\ realtimeErrors = UnsetErrors
  /\ imported = FALSE
  /\ formWaiting = <<>>
  /\ fq = <<>>
  /\ formCalls = 0
  /\ lastF = NoFormStep

---------------------------------------------------------------------------
Init ==
  /\ db \in [Slugs -> {"X"}]
  /\ slot = [s \in Stores |-> NullVal]
  /\ cache = [s \in Stores |-> [k \in KeysOf(s) |-> 0]]
  /\ promises = <<>>
  /\ waiting = <<>>
  /\ revals = [sk \in StoreKeys |-> 0]
  /\ mq = <<>>
  /\ errors = {}
  /\ limit = MaxOps
  /\ ops = 0
  /\ sync = FALSE
  /\ last = NoStep
  /\ InitUpdate
  /\ InitCollabs
  /\ InitForm

---------------------------------------------------------------------------
(* useMemoize: loadProject / loadProjects *)

\* memoized(key): the promise the call returns - the cached one when the
\* cache has the key, else the one the resolver creates now
MemoPid(store, key) ==
  IF cache[store][key] # 0 THEN cache[store][key] ELSE Len(promises) + 1

\* a variant that runs the resolver again when the cached outcome is a failure
MemoPromisesRetry(store, key) ==
  IF cache[store][key] # 0 /\ ~promises[cache[store][key]].res.error THEN promises
  ELSE Append(promises, [store |-> store, key |-> key, settled |-> FALSE,
                         res |-> NoResult])

\* a variant that runs the resolver on every call
MemoPromisesAlways(store, key) ==
  Append(promises, [store |-> store, key |-> key, settled |-> FALSE,
                    res |-> NoResult])

\* the resolver runs (the underlying query is invoked) only on a cache miss
MemoPromises(store, key) ==
  IF cache[store][key] # 0 THEN promises
  ELSE Append(promises, [store |-> store, key |-> key, settled |-> FALSE,
                         res |-> NoResult])

\* a variant that does not store the new promise
MemoCacheNotStored(store, key) == cache

\* cache.set(key, resolver(key)) on a miss
MemoCache(store, key) ==
  IF cache[store][key] # 0 THEN cache
  ELSE [cache EXCEPT ![store][key] = Len(promises) + 1]

\* a variant that clears the loader's whole cache
MemoClear(store, key) == [cache EXCEPT ![store] = [k \in KeysOf(store) |-> 0]]

\* loaderFn.delete(key)
MemoDelete(store, key) == [cache EXCEPT ![store][key] = 0]

\* underlying query invocations made through a loader, and those in flight
LoaderCalls(store, key) ==
  Cardinality({p \in 1..Len(promises) :
                 promises[p].store = store /\ promises[p].key = key})
InFlight(store, key) ==
  {p \in 1..Len(promises) :
     promises[p].store = store /\ promises[p].key = key /\ ~promises[p].settled}

Step(op, store, key, res) ==
  [op |-> op, store |-> store, key |-> key, pre |-> slot[store],
   entry |-> cache[store][key], invoked |-> LoaderCalls(store, key),
   fresh |-> revals[<<store, key>>], res |-> res]

---------------------------------------------------------------------------
(* validateCache *)

\* a variant that looks at the ref as it was before the caller filled it
validateCacheEarly(store, key, s) ==
  IF ~Truthy(slot[store]) THEN revals
  ELSE [revals EXCEPT ![<<store, key>>] = @ + 1]

\* the synchronous part: nothing when the ref is empty, else the fresh
\* query is issued (s is the slot as the caller left it)
validateCache(store, key, s) ==
  IF ~Truthy(s[store]) THEN revals
  ELSE [revals EXCEPT ![<<store, key>>] = @ + 1]

\* the .then callback, given the fresh result
\* a variant that compares the two objects by reference: never the same
RevalSameByReference(store, res) == FALSE

RevalSame(store, res) == Stringify(slot[store]) = Stringify(res.data)

\* a variant that leaves the memoized entry in place
RevalCacheKept(store, key, res) == cache

RevalCache(store, key, res) ==
  IF RevalSame(store, res) THEN cache ELSE MemoDelete(store, key)
\* a variant that never replaces the ref
RevalSlotKept(store, res) == slot

RevalSlot(store, res) ==
  IF RevalSame(store, res) THEN slot
  ELSE IF ~res.error /\ Truthy(res.data) THEN [slot EXCEPT ![store] = res.data]
       ELSE slot

\* the fresh query of validateCache(store, key) is answered and the callback
\* runs: the response is a task, so the microtask queue is empty, and the
\* callback is the only reaction to it
validateCacheThen(store, key, outcome) ==
  /\ mq = <<>>
  /\ revals[<<store, key>>] > 0
  /\ revals' = [revals EXCEPT ![<<store, key>>] = @ - 1]
  /\ LET res == QueryResult(store, key, db, outcome) IN
       /\ cache' = RevalCache(store, key, res)
       /\ slot' = RevalSlot(store, res)
       /\ last' = Step("revalidated", store, key, res)
  /\ UNCHANGED <<db, promises, waiting, mq, errors, limit, ops, sync>>
  /\ UNCHANGED <<updateVars, collabVars, formVars>>

---------------------------------------------------------------------------
(* getProjects / getProject *)

\* a variant without the reset
ResetSlotMissing(store) == slot

\* `project.value = null` / `projects.value = null`
ResetSlot(store) == [slot EXCEPT ![store] = NullVal]

\* from the call to the await: reset the ref, call the memoized loader
GetCall(store, key) ==
  /\ ops < limit
  /\ OnlyHits
  /\ slot' = ResetSlot(store)
  /\ promises' = MemoPromises(store, key)
  /\ cache' = MemoCache(store, key)
  /\ LET pid == MemoPid(store, key) IN
       IF pid <= Len(promises) /\ promises[pid].settled
       THEN /\ mq' = Append(mq, [src |-> "hit", store |-> store,
                                 key |-> key, pid |-> pid])
            /\ waiting' = waiting
       ELSE /\ waiting' = Append(waiting, [store |-> store, key |-> key, pid |-> pid])
            /\ mq' = mq
  /\ ops' = ops + 1
  /\ sync' = (last.op = "call")
  /\ last' = Step("call", store, key, NoResult)
  /\ UNCHANGED <<db, revals, errors, limit>>
  /\ UNCHANGED <<updateVars, collabVars, formVars>>

getProjects == GetCall("projects", ListKey)

getProject(slug) == GetCall("project", slug)

\* after the await: report the error, fill the ref, validateCache(...)
\* a variant that lets only the first load to settle fill the ref
ResumeSlotIfEmpty(store, res) ==
  IF Truthy(res.data) /\ ~Truthy(slot[store])
  THEN [slot EXCEPT ![store] = res.data] ELSE slot

ResumeSlot(store, res) ==
  IF Truthy(res.data) THEN [slot EXCEPT ![store] = res.data] ELSE slot

ResumeErrors(store, key, res) ==
  IF res.error THEN errors \cup {[store |-> store, key |-> key, code |-> res.status]}
  ELSE errors

GetResume ==
  /\ mq # <<>>
  /\ LET m == Head(mq)
         res == promises[m.pid].res
     IN /\ errors' = ResumeErrors(m.store, m.key, res)
        /\ slot' = ResumeSlot(m.store, res)
        /\ revals' = validateCache(m.store, m.key, ResumeSlot(m.store, res))
        /\ last' = Step("resumed", m.store, m.key, res)
  /\ mq' = Tail(mq)
  /\ UNCHANGED <<db, cache, promises, waiting, limit, ops, sync>>
  /\ UNCHANGED <<updateVars, collabVars, formVars>>

---------------------------------------------------------------------------
(* The environment: network responses and other clients of the backend *)

\* the response to a query issued by a memoized loader
SettleLoad(pid, outcome) ==
  /\ mq = <<>>
  /\ pid \in 1..Len(promises)
  /\ ~promises[pid].settled
  /\ LET p == promises[pid]
         res == QueryResult(p.store, p.key, db, outcome)
     IN promises' = [promises EXCEPT ![pid].settled = TRUE, ![pid].res = res]
  /\ mq' = SelectWaiters(waiting, pid)
  /\ waiting' = DropWaiters(waiting, pid)
  /\ UNCHANGED <<db, slot, cache, revals, errors, limit, ops, sync, last>>
  /\ UNCHANGED <<updateVars, collabVars, formVars>>

\* another client renames a row
DbChanges == Cardinality({s \in Slugs : db[s] # "X"})
DbChange(slug, name) ==
  /\ DbChanges < MaxDbChanges
  /\ db[slug] # name
  /\ db' = [db EXCEPT ![slug] = name]
  /\ UNCHANGED <<slot, cache, promises, waiting, revals, mq, errors, limit, ops, sync, last>>
  /\ UNCHANGED <<updateVars, collabVars, formVars>>

---------------------------------------------------------------------------
Next ==
  \/ getProjects
  \/ \E slug \in Slugs : getProject(slug)
  \/ GetResume
  \/ \E s \in Stores : \E k \in KeysOf(s) : \E o \in Outcomes : validateCacheThen(s, k, o)
  \/ \E pid \in 1..Len(promises), o \in Outcomes : SettleLoad(pid, o)
  \/ \E slug \in Slugs, name \in Names : DbChange(slug, name)

Spec == Init /\ [][Next]_vars

\* the single-item loader alone, on an unchanging backend, with more calls
InitProject ==
  /\ db \in [Slugs -> {"X"}]
  /\ slot = [s \in Stores |-> NullVal]
  /\ cache = [s \in Stores |-> [k \in KeysOf(s) |-> 0]]
  /\ promises = <<>>
  /\ waiting = <<>>
  /\ revals = [sk \in StoreKeys |-> 0]
  /\ mq = <<>>
  /\ errors = {}
  /\ limit = MaxProjectOps
  /\ ops = 0
  /\ sync = FALSE
  /\ last = NoStep
  /\ InitUpdate
  /\ InitCollabs
  /\ InitForm

NextProject ==
  \/ \E slug \in Slugs : getProject(slug)
  \/ GetResume
  \/ \E k \in Slugs : \E o \in Outcomes : validateCacheThen("project", k, o)
  \/ \E pid \in 1..Len(promises), o \in Outcomes : SettleLoad(pid, o)

SpecProject == InitProject /\ [][NextProject]_vars

\* the store under the event loop's guarantees: a queued continuation runs,
\* and every query that was issued is answered
InitLive ==
  /\ db \in [Slugs -> {"X"}]
  /\ slot = [s \in Stores |-> NullVal]
  /\ cache = [s \in Stores |-> [k \in KeysOf(s) |-> 0]]
  /\ promises = <<>>
  /\ waiting = <<>>
  /\ revals = [sk \in StoreKeys |-> 0]
  /\ mq = <<>>
  /\ errors = {}
  /\ limit = MaxLiveOps
  /\ ops = 0
  /\ sync = FALSE
  /\ last = NoStep
  /\ InitUpdate
  /\ InitCollabs
  /\ InitForm

Fairness ==
  /\ WF_vars(GetResume)
  /\ \A s \in Stores : \A k \in KeysOf(s) :
       WF_vars(\E o \in Outcomes : validateCacheThen(s, k, o))
  /\ \A pid \in 1..MaxLiveOps : WF_vars(\E o \in Outcomes : SettleLoad(pid, o))

SpecLive == InitLive /\ [][Next]_vars /\ Fairness

---------------------------------------------------------------------------
(* The collabs composable: getProfilesByIds / getGroupedCollabs *)

ItemLists ==
  {l \in UNION {[1..n -> AllItems] : n \in 0..MaxItems} :
     \A i, j \in 1..Len(l) : i # j => l[i].id # l[j].id}

\* what the backend answers to groupedProfilesQuery(userIds)
Profile(u) == [id |-> u, username |-> u]
Profiles(userIds) == [i \in 1..Len(userIds) |-> Profile(userIds[i])]
FetchOutcomes == {"ok", "empty", "err", "rej"}
groupedProfilesQuery(userIds, outcome) ==
  CASE outcome = "ok" -> [data |-> ListOf(Profiles(userIds)), error |-> FALSE]
    [] outcome = "empty" -> [data |-> ListOf(<<>>), error |-> FALSE]
    [] OTHER -> [data |-> NullVal, error |-> TRUE]

\* `if (error || !data) return []; return data`
getProfilesByIds(res) ==
  IF res.error \/ ~Truthy(res.data) THEN <<>> ELSE res.data.items

\* a variant that keeps every item
FilterItemsAll(items) == items

\* items.filter((item) => item.collaborators.length)
FilterItems(items) == SelectSeq(items, LAMBDA it : Len(it.collaborators) # 0)

PendingFetch(id) ==
  [item |-> id, state |-> "pending", outcome |-> "none", value |-> <<>>, at |-> 0]
NewBatch(items) ==
  [input |-> items,
   items |-> FilterItems(items),
   fetches |-> [i \in 1..Len(FilterItems(items)) |->
                  PendingFetch(FilterItems(items)[i].id)],
   status |-> IF Len(FilterItems(items)) = 0 THEN "resolved" ELSE "awaiting"]

\* Promise.all(promises): fulfilled once every promise is, rejected at the
\* first rejection
\* a variant that is fulfilled as soon as one promise is
AnyFulfilled(fs) == \E i \in 1..Len(fs) : fs[i].state = "fulfilled"

AllFulfilled(fs) == \A i \in 1..Len(fs) : fs[i].state = "fulfilled"

\* results[index] ?? []
ResultAt(b, i) ==
  IF i \in 1..Len(b.fetches) /\ b.fetches[i].state = "fulfilled"
  THEN b.fetches[i].value ELSE <<>>

\* groupedCollabs.value[id] = list
PutEntry(map, id, list) ==
  [x \in DOMAIN map \cup {id} |-> IF x = id THEN list ELSE map[x]]

RECURSIVE Commit(_, _, _)
\* a variant that starts from an empty object on every commit
CommitFresh(map, b, i) ==
  [x \in {b.items[j].id : j \in 1..Len(b.items)} |->
     ResultAt(b, CHOOSE j \in 1..Len(b.items) : b.items[j].id = x)]

\* filteredItems.forEach((item, index) => ...), from index i on
Commit(map, b, i) ==
  IF i > Len(b.items) THEN map
  ELSE Commit(PutEntry(map, b.items[i].id, ResultAt(b, i)), b, i + 1)

\* sync code runs between the composable's microtasks only while the queued
\* ones come from calls made in the same synchronous block
OnlyCalls == \A i \in 1..Len(cq) : cq[i].src = "call"

\* from the call to the await of Promise.all
getGroupedCollabs(items) ==
  /\ Len(batches) < MaxBatches
  /\ OnlyCalls
  /\ batches' = Append(batches, NewBatch(items))
  /\ cq' = IF NewBatch(items).status = "resolved"
            THEN Append(cq, [src |-> "call", batch |-> Len(batches) + 1])
            ELSE cq
  /\ lastC' = [op |-> "call", batch |-> Len(batches) + 1, pre |-> grouped]
  /\ view' = Render(grouped)
  /\ UNCHANGED <<grouped, storeVars, updateVars, formVars>>

\* the answer to the query of fetch i of batch b: getProfilesByIds returns
\* (or throws), and Promise.all settles when this decides it
SettleFetch(b, i, outcome) ==
  /\ cq = <<>>
  /\ b \in 1..Len(batches)
  /\ i \in 1..Len(batches[b].fetches)
  /\ batches[b].fetches[i].state = "pending"
  /\ LET userIds == batches[b].items[i].collaborators
         n == Cardinality({j \in 1..Len(batches[b].fetches) :
                             batches[b].fetches[j].state # "pending"})
         f == [item |-> batches[b].items[i].id,
               state |-> IF outcome = "rej" THEN "rejected" ELSE "fulfilled",
               outcome |-> outcome,
               value |-> IF outcome = "rej" THEN <<>>
                         ELSE getProfilesByIds(groupedProfilesQuery(userIds, outcome)),
               at |-> n + 1]
         fs == [batches[b].fetches EXCEPT ![i] = f]
         st == IF batches[b].status # "awaiting" THEN batches[b].status
               ELSE IF outcome = "rej" THEN "rejected"
               ELSE IF AllFulfilled(fs) THEN "resolved"
               ELSE "awaiting"
     IN /\ batches' = [batches EXCEPT ![b].fetches = fs, ![b].status = st]
        /\ cq' = IF st # batches[b].status
                  THEN <<[src |-> "net", batch |-> b]>> ELSE cq
  /\ UNCHANGED <<grouped, lastC, view, storeVars, updateVars, formVars>>

\* after the await: write the results, or throw when Promise.all rejected
GroupedResume ==
  /\ cq # <<>>
  /\ LET b == Head(cq).batch IN
       IF batches[b].status = "resolved"
       THEN /\ grouped' = Commit(grouped, batches[b], 1)
            /\ batches' = [batches EXCEPT ![b].status = "done"]
            /\ lastC' = [op |-> "commit", batch |-> b, pre |-> grouped]
       ELSE /\ grouped' = grouped
            /\ batches' = [batches EXCEPT ![b].status = "raised"]
            /\ lastC' = [op |-> "raise", batch |-> b, pre |-> grouped]
  /\ cq' = Tail(cq)
  /\ view' = Render(grouped')
  /\ UNCHANGED <<storeVars, updateVars, formVars>>

NextCollabs ==
  \/ \E items \in ItemLists : getGroupedCollabs(items)
  \/ \E b \in 1..Len(batches) : \E i \in 1..MaxItems : \E o \in FetchOutcomes :
       SettleFetch(b, i, o)
  \/ GroupedResume

SpecCollabs == Init /\ [][NextCollabs]_vars

---------------------------------------------------------------------------
(* updateProject / updateProjectQuery *)

\* a variant without the guard
UpdateGuardMissing(p) == FALSE

\* `if (!project.value) return`
UpdateGuard(p) == ~Truthy(p)

\* const { tasks, id, ...projectProperties } = project.value
projectProperties(p) == [slug |-> p.slug, name |-> p.name]

\* a variant that always addresses the first row
WriteOfFirstRow(p) == [id |-> IdOf(SlugOrder[1]), props |-> projectProperties(p)]

\* updateProjectQuery(projectProperties, project.value.id)
WriteOf(p) == [id |-> p.id, props |-> projectProperties(p)]

\* v-model="project.name": the user types another name into the title
editProject(name) ==
  /\ mq = <<>>
  /\ Truthy(slot["project"])
  /\ slot["project"].name # name
  /\ slot' = [slot EXCEPT !["project"].name = name]
  /\ UNCHANGED <<db, cache, promises, waiting, revals, mq, errors, limit, ops,
                 sync, last, updateVars, collabVars, formVars>>

\* from the click to the await of updateProjectQuery(projectProperties, id);
\* destructuring a null project.value would throw
updateProject ==
  /\ upd.calls < MaxUpdates
  /\ mq = <<>>
  /\ IF UpdateGuard(slot["project"])
     THEN /\ upd' = [calls |-> upd.calls + 1, op |-> "returned"]
          /\ writes' = writes
     ELSE IF slot["project"] = NullVal
     THEN /\ upd' = [calls |-> upd.calls + 1, op |-> "raised"]
          /\ writes' = writes
     ELSE /\ upd' = [calls |-> upd.calls + 1, op |-> "wrote"]
          /\ writes' = Append(writes, WriteOf(slot["project"]))
  /\ UNCHANGED <<storeVars, collabVars, formVars>>

\* the backend runs update(props).eq('id', id): the row with that id takes the
\* name sent, or the write fails and the row stays
ApplyWrite(outcome) ==
  /\ writes # <<>>
  /\ mq = <<>>
  /\ db' = IF outcome = "ok"
            THEN [s \in Slugs |-> IF IdOf(s) = Head(writes).id
                                   THEN Head(writes).props.name ELSE db[s]]
            ELSE db
  /\ writes' = Tail(writes)
  /\ upd' = [upd EXCEPT !.op = IF outcome = "ok" THEN "saved" ELSE "failed"]
  /\ UNCHANGED <<slot, cache, promises, waiting, revals, mq, errors, limit, ops,
                 sync, last, collabVars, formVars>>

InitUpdating ==
  /\ db \in [Slugs -> {"X"}]
  /\ slot = [s \in Stores |-> NullVal]
  /\ cache = [s \in Stores |-> [k \in KeysOf(s) |-> 0]]
  /\ promises = <<>>
  /\ waiting = <<>>
  /\ revals = [sk \in StoreKeys |-> 0]
  /\ mq = <<>>
  /\ errors = {}
  /\ limit = MaxUpdateOps
  /\ ops = 0
  /\ sync = FALSE
  /\ last = NoStep
  /\ InitUpdate
  /\ InitCollabs
  /\ InitForm

NextUpdate ==
  \/ \E slug \in Slugs : getProject(slug)
  \/ GetResume
  \/ \E k \in Slugs : \E o \in Outcomes : validateCacheThen("project", k, o)
  \/ \E pid \in 1..Len(promises), o \in Outcomes : SettleLoad(pid, o)
  \/ \E slug \in Slugs, name \in Names : DbChange(slug, name)
  \/ \E name \in Names : editProject(name)
  \/ updateProject
  \/ \E o \in Outcomes : ApplyWrite(o)

SpecUpdate == InitUpdating /\ [][NextUpdate]_vars

---------------------------------------------------------------------------
(* useFormerrors: handelLoginForm *)

\* a variant that resets the lists on the first call only
ResetErrorsOnce == IF realtimeErrors = UnsetErrors
                   THEN [tag |-> "set", email |-> <<>>, password |-> <<>>]
                   ELSE realtimeErrors

\* realtimeErrors.value = { email: [], password: [] }
ResetErrors == [tag |-> "set", email |-> <<>>, password |-> <<>>]

\* if(emailErrors.length) realtimeErrors.value.email = emailErrors, and the
\* same for the password, on the object the ref holds now
ApplyErrors(cur, formData) ==
  [cur EXCEPT
     !.email = IF Len(validateEmail(formData.email)) # 0
               THEN validateEmail(formData.email) ELSE @,
     !.password = IF Len(validatePassword(formData.password)) # 0
                  THEN validatePassword(formData.password) ELSE @]

\* the caller can call again only while the queued continuations come from
\* calls of the same synchronous block
FormOnlySync == \A i \in 1..Len(fq) : fq[i].src = "sync"

\* from the call to `await import(...)`: the import of a loaded module
\* resolves in a microtask, the first one waits for the module
handelLoginForm(formData) ==
  /\ formCalls < MaxFormCalls
  /\ FormOnlySync
  /\ realtimeErrors' = ResetErrors
  /\ IF imported
     THEN /\ fq' = Append(fq, [src |-> "sync", form |-> formData])
          /\ formWaiting' = formWaiting
     ELSE /\ formWaiting' = Append(formWaiting, formData)
          /\ fq' = fq
  /\ formCalls' = formCalls + 1
  /\ lastF' = [op |-> "call", form |-> formData,
               alone |-> (formWaiting = <<>> /\ fq = <<>>),
               before |-> realtimeErrors]
  /\ UNCHANGED <<imported, storeVars, updateVars, collabVars>>

\* the module formValidations arrives: every waiting call resumes, in order
ImportLoaded ==
  /\ ~imported
  /\ formWaiting # <<>>
  /\ fq = <<>>
  /\ imported' = TRUE
  /\ fq' = [i \in 1..Len(formWaiting) |-> [src |-> "net", form |-> formWaiting[i]]]
  /\ formWaiting' = <<>>
  /\ UNCHANGED <<realtimeErrors, formCalls, lastF, storeVars, updateVars, collabVars>>

\* after the await: validate both fields of the call's own formData
FormResume ==
  /\ fq # <<>>
  /\ realtimeErrors' = ApplyErrors(realtimeErrors, Head(fq).form)
  /\ fq' = Tail(fq)
  /\ lastF' = [op |-> "resumed", form |-> Head(fq).form,
               alone |-> (lastF.op = "call" /\ lastF.alone),
               before |-> IF lastF.op = "call" THEN lastF.before ELSE realtimeErrors]
  /\ UNCHANGED <<imported, formWaiting, formCalls, storeVars, updateVars, collabVars>>

NextForm ==
  \/ \E formData \in LoginForms : handelLoginForm(formData)
  \/ ImportLoaded
  \/ FormResume

SpecForm == Init /\ [][NextForm]_vars

---------------------------------------------------------------------------
(* Properties *)

TypeOK ==
  /\ db \in [Slugs -> Names]
  /\ \A s \in Stores : slot[s].tag \in {"null", "obj", "arr"}
  /\ \A s \in Stores : \A k \in KeysOf(s) : cache[s][k] \in 0..Len(promises)
  /\ Len(promises) <= ops
  /\ ops \in 0..limit

\* nothing is left to run: no call is suspended, no microtask is queued and
\* every query has been answered
Quiescent ==
  /\ waiting = <<>>
  /\ mq = <<>>
  /\ \A sk \in StoreKeys : revals[sk] = 0
  /\ \A p \in 1..Len(promises) : promises[p].settled

\* C1: two calls of a memoized loader with the same key that are both still
\* suspended (both were issued before the first one settled) wait on one and
\* the same promise: the underlying query was invoked once for the two, and
\* both get its result.
C1_OneInvocation ==
  \A i, j \in 1..Len(waiting) :
    (waiting[i].store = waiting[j].store /\ waiting[i].key = waiting[j].key)
      => waiting[i].pid = waiting[j].pid

\* C2: getProject(ka) directly followed by getProject(kb), nothing else
\* called, every load successful and everything settled: the project slot
\* holds item kb.
C2_SecondCallWins ==
  \A ka, kb \in Slugs :
    (/\ ka # kb
     /\ ops = 2 /\ sync
     /\ Len(promises) = 2
     /\ promises[1].store = "project" /\ promises[1].key = ka
     /\ promises[2].store = "project" /\ promises[2].key = kb
     /\ Quiescent
     /\ \A p \in 1..2 : ~promises[p].res.error)
    => (slot["project"].tag = "obj" /\ slot["project"].slug = kb)

\* C3: right after the synchronous part of getProject(key) / getProjects(),
\* and until the store's code runs again, the slot of that call is empty.
C3_ResetBeforeFetch ==
  last.op = "call" => slot[last.store] = NullVal

C3_Witness ==
  /\ last.op = "call" /\ last.store = "project"
  /\ Truthy(last.pre)
  /\ slot["project"] = NullVal
  /\ waiting # <<>>

\* C4: a revalidation whose fresh query succeeds with data that serializes
\* differently from the slot leaves the cache without an entry for its key
\* and the slot holding the fresh data.
C4_RevalidationCorrects ==
  (/\ last.op = "revalidated"
   /\ ~last.res.error /\ Truthy(last.res.data)
   /\ Stringify(last.pre) # Stringify(last.res.data))
  => (/\ cache[last.store][last.key] = 0
      /\ slot[last.store] = last.res.data)

C4_Witness ==
  /\ last.op = "revalidated"
  /\ ~last.res.error
  /\ Truthy(last.pre) /\ last.pre # last.res.data
  /\ last.entry # 0
  /\ cache[last.store][last.key] = 0
  /\ slot[last.store] = last.res.data

\* C5: a revalidation whose fresh data serializes to the same text as the
\* slot changes neither the cache entry of its key nor the slot.
C5_RevalidationNoOp ==
  (/\ last.op = "revalidated"
   /\ Stringify(last.pre) = Stringify(last.res.data))
  => (/\ cache[last.store][last.key] = last.entry
      /\ slot[last.store] = last.pre)

C5_Witness ==
  /\ last.op = "revalidated"
  /\ Truthy(last.pre) /\ last.pre = last.res.data
  /\ last.entry # 0
  /\ cache[last.store][last.key] = last.entry
  /\ slot[last.store] = last.pre

\* C6: at most one query invoked through a memoized loader is in flight for
\* any key.
C6_OneInFlightPerKey ==
  \A s \in Stores : \A k \in KeysOf(s) : Cardinality(InFlight(s, k)) <= 1

\* C7: a call whose key has a cache entry holding a failed outcome invokes
\* no query: the entry stays, and the call gets that same failed promise.
C7_FailureIsCached ==
  (/\ last.op = "call"
   /\ last.entry # 0
   /\ promises[last.entry].settled /\ promises[last.entry].res.error)
  => (/\ LoaderCalls(last.store, last.key) = last.invoked
      /\ cache[last.store][last.key] = last.entry
      /\ mq # <<>>
      /\ mq[Len(mq)].pid = last.entry
      /\ mq[Len(mq)].store = last.store /\ mq[Len(mq)].key = last.key)

C7_Witness ==
  /\ last.op = "call" /\ last.store = "project"
  /\ last.entry # 0
  /\ promises[last.entry].settled /\ promises[last.entry].res.error
  /\ ops >= 2
  /\ LoaderCalls("project", last.key) = 1
  /\ mq # <<>> /\ mq[Len(mq)].src = "hit" /\ mq[Len(mq)].pid = last.entry

\* C8: a call whose key had its cache entry deleted invokes the underlying
\* query once more and caches the new promise, which is the one it waits on.
C8_InvalidatedIsRefetched ==
  (/\ last.op = "call"
   /\ last.entry = 0 /\ last.invoked > 0)
  => (/\ LoaderCalls(last.store, last.key) = last.invoked + 1
      /\ cache[last.store][last.key] = Len(promises)
      /\ promises[Len(promises)].store = last.store
      /\ promises[Len(promises)].key = last.key)

C8_Witness ==
  /\ last.op = "call"
  /\ last.entry = 0 /\ last.invoked = 1
  /\ LoaderCalls(last.store, last.key) = 2
  /\ ~promises[Len(promises)].settled
  /\ waiting # <<>> /\ waiting[Len(waiting)].pid = Len(promises)

\* C9: no step of a load completion or of a revalidation takes the project
\* slot from one item's data directly to another item's data.
C9_EmptyBetweenItems ==
  ~(/\ last.op \in {"resumed", "revalidated"}
    /\ last.store = "project"
    /\ last.pre.tag = "obj"
    /\ slot["project"].tag = "obj"
    /\ last.pre.slug # slot["project"].slug)

\* C10: revalidation does nothing while the slot is empty: validateCache
\* issues no fresh query when the slot is empty after the load, and a fresh
\* result that arrives while the slot is empty changes neither the cache
\* entry nor the slot.
C10_EmptySlotNoOp ==
  /\ (last.op = "resumed" /\ ~Truthy(slot[last.store]))
       => revals[<<last.store, last.key>>] = last.fresh
  /\ (last.op = "revalidated" /\ ~Truthy(last.pre))
       => (/\ cache[last.store][last.key] = last.entry
           /\ slot[last.store] = NullVal)

\* C11: when getProjects() returns after a successful load, the slot holds
\* the memoized result and the fresh query it triggered is still in flight;
\* with a single call made, the revalidation callback runs only once that
\* call is no longer suspended.
C11_SettlesBeforeRevalidation ==
  /\ (last.op = "resumed" /\ last.store = "projects" /\ Truthy(last.res.data))
       => (/\ slot["projects"] = last.res.data
           /\ revals[<<"projects", ListKey>>] = last.fresh + 1)
  /\ (last.op = "revalidated" /\ last.store = "projects" /\ ops = 1)
       => (waiting = <<>> /\ mq = <<>> /\ last.fresh >= 1)

\* getProjects() has returned with a stale memoized list in the slot while
\* its revalidation is in flight
C11_Witness ==
  /\ last.op = "resumed" /\ last.store = "projects"
  /\ Truthy(last.res.data)
  /\ last.res.data # projectsQuery(db)
  /\ slot["projects"] = last.res.data
  /\ revals[<<"projects", ListKey>>] = 1
  /\ mq = <<>>

\* C12: when getProjects() returns, a failed load has been reported to the
\* error sink with the status of the result and the slot is empty; a
\* successful load has put the returned data into the slot.
C12_LoadOutcome ==
  (last.op = "resumed" /\ last.store = "projects")
  => IF last.res.error
     THEN /\ [store |-> "projects", key |-> ListKey, code |-> last.res.status] \in errors
          /\ slot["projects"] = NullVal
     ELSE slot["projects"] = last.res.data

---------------------------------------------------------------------------
(* Properties of the collabs composable, checked under SpecCollabs *)

BatchIds(b) == {b.items[i].id : i \in 1..Len(b.items)}

\* C13: getGroupedCollabs commits all-or-nothing. A batch that has written has
\* no unsettled fetch; the map changes only in the commit step of a batch, and
\* that one step writes an entry for every filtered item of the batch and
\* leaves the other keys as they were; no other step modifies the map.
C13_AllOrNothing ==
  /\ \A b \in 1..Len(batches) :
       batches[b].status = "done" =>
         \A i \in 1..Len(batches[b].fetches) : batches[b].fetches[i].state # "pending"
  /\ lastC.op # "commit" => grouped = lastC.pre
  /\ lastC.op = "commit" =>
       /\ batches[lastC.batch].status = "done"
       /\ DOMAIN grouped = DOMAIN lastC.pre \cup BatchIds(batches[lastC.batch])
       /\ \A k \in DOMAIN lastC.pre \ BatchIds(batches[lastC.batch]) :
            grouped[k] = lastC.pre[k]

\* a batch of two fetches commits both entries after the first item's fetch
\* settled last
C13_Witness ==
  /\ lastC.op = "commit"
  /\ lastC.pre = <<>>
  /\ Len(batches[lastC.batch].fetches) = 2
  /\ batches[lastC.batch].fetches[1].at = 2
  /\ batches[lastC.batch].fetches[2].at = 1
  /\ Cardinality(DOMAIN grouped) = 2

OwnResult(item, f) ==
  IF f.outcome = "ok" THEN Profiles(item.collaborators) ELSE <<>>

\* C14: after a batch on an empty map has settled, the keys of the map are the
\* ids of the input items that have collaborators, and each maps to the result
\* of that item's own fetch, in whatever order the fetches settled.
C14_KeysAndOwnResults ==
  (/\ lastC.op \in {"commit", "raise"}
   /\ lastC.pre = <<>>)
  => LET b == batches[lastC.batch] IN
     /\ DOMAIN grouped =
          {b.input[i].id : i \in {j \in 1..Len(b.input) : Len(b.input[j].collaborators) > 0}}
     /\ \A i \in 1..Len(b.items) :
          /\ b.fetches[i].item = b.items[i].id
          /\ grouped[b.items[i].id] = OwnResult(b.items[i], b.fetches[i])

\* C15: a failed fetch (rejected, or answered with an error payload) gives its
\* item an empty list, and the batch still commits every other item's list.
C15_FailureIsolated ==
  \A b \in 1..Len(batches) :
    (/\ \A i \in 1..Len(batches[b].fetches) : batches[b].fetches[i].state # "pending"
     /\ \E i \in 1..Len(batches[b].fetches) : batches[b].fetches[i].outcome \in {"err", "rej"}
     /\ \A i \in 1..Len(cq) : cq[i].batch # b)
    => /\ batches[b].status = "done"
       /\ \A i \in 1..Len(batches[b].items) : batches[b].items[i].id \in DOMAIN grouped
       /\ (lastC.batch = b) =>
            \A i \in 1..Len(batches[b].items) :
              grouped[batches[b].items[i].id] = OwnResult(batches[b].items[i], batches[b].fetches[i])

\* C16: no fetch and no entry for an item without collaborators; a call whose
\* items all have none settles without a fetch and without changing the map.
C16_EmptySkipped ==
  /\ \A b \in 1..Len(batches) :
       /\ Len(batches[b].fetches) =
            Cardinality({j \in 1..Len(batches[b].input) :
                           Len(batches[b].input[j].collaborators) > 0})
       /\ \A i \in 1..Len(batches[b].fetches) :
            \E j \in 1..Len(batches[b].input) :
              /\ batches[b].input[j].id = batches[b].fetches[i].item
              /\ Len(batches[b].input[j].collaborators) > 0
  /\ \A it \in AllItems : Len(it.collaborators) = 0 => it.id \notin DOMAIN grouped
  /\ (/\ lastC.op \in {"call", "commit", "raise"}
      /\ \A j \in 1..Len(batches[lastC.batch].input) :
           Len(batches[lastC.batch].input[j].collaborators) = 0)
     => (/\ grouped = lastC.pre
         /\ batches[lastC.batch].fetches = <<>>
         /\ lastC.op # "raise")

\* a call with only an item without collaborators has settled on a map that
\* an earlier batch filled
C16_Witness ==
  /\ lastC.op = "commit"
  /\ Len(batches[lastC.batch].input) = 1
  /\ batches[lastC.batch].fetches = <<>>
  /\ grouped # <<>>
  /\ grouped = lastC.pre

\* C17: a key of the grouped map is never removed.
C17_Monotonic == [][DOMAIN grouped \subseteq DOMAIN grouped']_vars

\* a later batch has overwritten the entry of an id with another list
C17_Witness ==
  /\ lastC.op = "commit"
  /\ \E k \in DOMAIN lastC.pre : k \in DOMAIN grouped /\ grouped[k] # lastC.pre[k]
  /\ \E k \in DOMAIN lastC.pre : k \notin BatchIds(batches[lastC.batch])

\* C18: the caller goes on while the batch is pending, and a row's cell shows
\* the skeleton exactly when the row's id has no entry in the map, the
\* resolved avatars whenever it has one, an empty list included.
C18_SkeletonIffAbsent ==
  /\ lastC.op = "call" => batches[lastC.batch].status \in {"awaiting", "resolved"}
  /\ lastC.op # "init" =>
       \A it \in AllItems : (view[it.id] = "skeleton") <=> (it.id \notin DOMAIN grouped)

\* C20: getGroupedCollabs never raises to its caller, whether a query rejects
\* or answers with an error payload.
C20_NeverRaises ==
  /\ lastC.op # "raise"
  /\ \A b \in 1..Len(batches) : batches[b].status # "raised"

---------------------------------------------------------------------------
(* Properties of updateProject, checked under SpecUpdate *)

\* C19: updateProject called while the project slot is empty issues no write,
\* changes neither the slot nor the memo cache nor the backend, and does not
\* raise.
C19_EmptySlotUpdateNoOp ==
  [][(upd'.calls # upd.calls /\ slot["project"] = NullVal)
     => (/\ upd'.op = "returned"
         /\ writes' = writes
         /\ slot' = slot
         /\ cache' = cache
         /\ promises' = promises
         /\ db' = db)]_vars

\* updateProject has returned at once while a getProject call, which emptied
\* the slot of a loaded project, is still waiting for its loader
C19_Witness ==
  /\ upd.op = "returned"
  /\ slot["project"] = NullVal
  /\ waiting # <<>>
  /\ \E k \in Slugs : cache["project"][k] # 0
  /\ ops > 1

---------------------------------------------------------------------------
(* Further properties of the projects store *)

\* C21: after a call whose load failed left the slot empty, with no other
\* call on that slot still to resume, the slot stays empty until the next
\* getProject/getProjects call: no background step, a revalidation started
\* by an earlier call included, fills it.
C21_FailedStaysEmpty ==
  [][(/\ last.op = "resumed"
      /\ last.res.error
      /\ slot[last.store] = NullVal
      /\ \A i \in 1..Len(waiting) : waiting[i].store # last.store
      /\ \A i \in 1..Len(mq) : mq[i].store # last.store
      /\ last'.op # "call")
     => slot'[last.store] = NullVal]_vars

\* C22: no cancellation and no generation guard. A call never drops a load
\* that is in flight or a call that waits for one, and when a load settles
\* with data the slot holds that data, whichever call was issued first.
C22_LastSettledWins ==
  /\ [](\A i \in 1..Len(waiting) : waiting[i].pid \in 1..Len(promises))
  /\ []((last.op = "resumed" /\ last.store = "project" /\ ~last.res.error)
          => slot["project"] = last.res.data)
  /\ [][(last'.op = "call" /\ last' # last)
         => (/\ Len(promises') >= Len(promises)
             /\ \A p \in 1..Len(promises) : promises'[p] = promises[p]
             /\ \A i \in 1..Len(waiting) : waiting'[i] = waiting[i])]_vars

\* getProject("a") then getProject("b") overlap; b's load settled first and
\* filled the slot, then a's load settled and the slot holds a's project
C22_Witness ==
  /\ ops = 2
  /\ Len(promises) = 2
  /\ promises[1].key = "a" /\ promises[2].key = "b"
  /\ last.op = "resumed" /\ last.key = "a"
  /\ last.pre.tag = "obj" /\ last.pre.slug = "b"
  /\ slot["project"].tag = "obj" /\ slot["project"].slug = "a"
  /\ waiting = <<>> /\ mq = <<>>

\* C23: a revalidation for key K changes no cache entry but that of K, in
\* its own loader.
C23_InvalidationPerKey ==
  [][\A s \in Stores : \A k \in KeysOf(s) :
       revals'[<<s, k>>] < revals[<<s, k>>]
       => \A s2 \in Stores : \A k2 \in KeysOf(s2) :
            (<<s2, k2>> # <<s, k>>) => cache'[s2][k2] = cache[s2][k2]]_vars

\* a revalidation has removed the entry of its key while the loader still
\* holds the entry of another key
C23_Witness ==
  /\ last.op = "revalidated"
  /\ last.entry # 0
  /\ cache[last.store][last.key] = 0
  /\ \E k \in KeysOf(last.store) : k # last.key /\ cache[last.store][k] # 0

\* C24: getProject(slug) for a slug whose successful load is still memoized
\* does not invoke the query through the loader and fills the slot with the
\* memoized result; the first getProject(slug) invokes it exactly once.
C24_MemoizedNotRefetched ==
  /\ (last.op = "call" /\ last.store = "project" /\ last.entry # 0)
     => (/\ LoaderCalls("project", last.key) = last.invoked
         /\ cache["project"][last.key] = last.entry)
  /\ (last.op = "call" /\ last.store = "project" /\ last.invoked = 0)
     => LoaderCalls("project", last.key) = 1
  /\ (/\ last.op = "resumed" /\ last.store = "project" /\ ~last.res.error)
     => (/\ slot["project"] = last.res.data
         /\ LoaderCalls("project", last.key) = last.invoked
         /\ \E p \in 1..Len(promises) :
              promises[p].key = last.key /\ promises[p].res = last.res)

\* a second getProject("a") was a hit on the memoized load and has filled the
\* slot: the query ran once for two calls
C24_Witness ==
  /\ ops = 2
  /\ Len(promises) = 1
  /\ promises[1].key = "a" /\ ~promises[1].res.error
  /\ cache["project"]["a"] = 1
  /\ last.op = "resumed" /\ last.key = "a"
  /\ last.pre = NullVal
  /\ slot["project"] = promises[1].res.data

\* C25: a revalidation removes the memo entry of its key only in a step that
\* also puts the fresh data in the slot; one whose fresh fetch fails leaves
\* the slot and the entry as they were.
C25_InvalidateOnlyWithReplace ==
  /\ (/\ last.op = "revalidated"
      /\ last.entry # 0
      /\ cache[last.store][last.key] = 0)
     => (~last.res.error /\ slot[last.store] = last.res.data)
  /\ (last.op = "revalidated" /\ last.res.error)
     => (/\ slot[last.store] = last.pre
         /\ cache[last.store][last.key] = last.entry)

\* C28: an updateProject call on a loaded project issues exactly one write,
\* addressed to the id of the project in the slot, and neither that step nor
\* the backend's answer changes the slot, a memo cache entry, or the loads
\* and revalidations in flight.
C28_UpdateWritesOnce ==
  /\ [][(upd'.calls # upd.calls /\ slot["project"] # NullVal)
        => (/\ writes' = Append(writes, writes'[Len(writes')])
            /\ writes'[Len(writes')].id = slot["project"].id
            /\ writes'[Len(writes')].props.name = slot["project"].name
            /\ slot' = slot /\ cache' = cache
            /\ promises' = promises /\ revals' = revals /\ waiting' = waiting)]_vars
  /\ [][(Len(writes') < Len(writes))
        => (/\ writes' = Tail(writes)
            /\ slot' = slot /\ cache' = cache
            /\ promises' = promises /\ revals' = revals /\ waiting' = waiting)]_vars

\* the user renamed the loaded project "b", and the one write of
\* updateProject has stored the new name in the row of "b"
C28_Witness ==
  /\ upd = [calls |-> 1, op |-> "saved"]
  /\ writes = <<>>
  /\ slot["project"].tag = "obj" /\ slot["project"].slug = "b"
  /\ slot["project"].name = "Y"
  /\ db["b"] = "Y" /\ db["a"] = "X"
  /\ cache["project"]["b"] # 0

\* C26: while a getProject call waits for its memoized load, and no other
\* call has filled the slot, a revalidation started by an earlier call does
\* not fill the slot that the call reset.
C26_EmptyUntilLoadSettles ==
  [][(/\ \E i \in 1..Len(waiting) : waiting[i].store = "project"
      /\ slot["project"] = NullVal
      /\ \E k \in Slugs : revals'[<<"project", k>>] < revals[<<"project", k>>])
     => slot'["project"] = NullVal]_vars

\* C27: after a getProject(key) or getProjects() call, unless one of its
\* fetches fails, eventually the revalidation of that key is answered and the
\* slot holds the value the backend returned to it.
C27_Converges ==
  \A s \in Stores : \A k \in KeysOf(s) :
    (last.op = "call" /\ last.store = s /\ last.key = k)
    ~> \/ /\ last.op = "revalidated" /\ last.store = s /\ last.key = k
          /\ ~last.res.error
          /\ slot[s] = last.res.data
       \/ /\ last.op \in {"resumed", "revalidated"} /\ last.store = s /\ last.key = k
          /\ last.res.error

\* the second of two calls was served a stale memoized value, and its
\* revalidation has put the backend's current value in the slot
C27_Witness ==
  /\ ops = 2
  /\ Len(promises) = 1
  /\ last.op = "revalidated"
  /\ ~last.res.error
  /\ last.pre = promises[1].res.data
  /\ last.pre # last.res.data
  /\ slot[last.store] = last.res.data
  /\ slot[last.store] = QueryData(last.store, last.key, db)
  /\ revals[<<last.store, last.key>>] = 0

---------------------------------------------------------------------------
(* Properties of useFormerrors, checked under SpecForm *)

Validation(formData) ==
  [tag |-> "set", email |-> validateEmail(formData.email),
   password |-> validatePassword(formData.password)]

\* C29: when a handelLoginForm(formData) call that no other call overlapped
\* has settled, realtimeErrors.email is validateEmail(formData.email) and
\* realtimeErrors.password is validatePassword(formData.password), whatever
\* the errors were before the call.
C29_SingleCallValidates ==
  (lastF.op = "resumed" /\ lastF.alone)
  => (/\ realtimeErrors.email = validateEmail(lastF.form.email)
      /\ realtimeErrors.password = validatePassword(lastF.form.password))

\* a call with a valid email and a bad password has settled on a ref that
\* held email errors before it
C29_Witness ==
  /\ lastF.op = "resumed" /\ lastF.alone
  /\ lastF.before # UnsetErrors
  /\ lastF.before.email # <<>>
  /\ validateEmail(lastF.form.email) = <<>>
  /\ realtimeErrors.email = <<>>
  /\ realtimeErrors.password # <<>>

\* C30: when overlapping handelLoginForm calls have all settled,
\* realtimeErrors is the validation of the formData submitted last.
C30_LatestFormOnly ==
  (lastF.op = "resumed" /\ fq = <<>> /\ formWaiting = <<>>)
  => realtimeErrors = Validation(lastF.form)

====
